---- MODULE Spec2Model ----
(***************************************************************************)
(* Model of the native process launcher of cdt-gdb-adapter                 *)
(* (src/native/spawn.cc): path_val, pfind, exec0 and the exec_0 binding,   *)
(* with the launcher's and the child's descriptor tables, process groups   *)
(* and sessions, and of raise() of src/native/signal.cc.                    *)
(*                                                                         *)
(* C strings are sequences of one-character strings.  A char* is NULL or   *)
(* Ptr(s).  A descriptor table maps each descriptor number to what it      *)
(* refers to: "closed", "file" (anything the launcher had open), or one of *)
(* the six pipe ends of the current call.                                  *)
(***************************************************************************)
EXTENDS Integers, Sequences, FiniteSets, TLC

----------------------------------------------------------------------------
(* Bounds of the model *)

\* sysconf(_SC_OPEN_MAX): descriptors are 0 .. FdLimit-1
FdLimit == 10
\* descriptors 0 .. MaxInitFd may be open in the launcher before the first call
MaxInitFd == 2
\* number of exec_0 calls followed in one behaviour
MaxCalls == 2

(* Program constants *)

PATH_MAX == 1024
path_def_len == 5
STDIN_FILENO == 0
STDOUT_FILENO == 1
STDERR_FILENO == 2

PATH_DEF == <<"P", "A", "T", "H", "=">>

----------------------------------------------------------------------------
(* Pointers and strings *)

NULL == <<>>
Ptr(s) == <<s>>
Deref(p) == p[1]

\* strncmp(a, b, n) = 0 : the first n characters agree (a string shorter than
\* n ends in its terminator, which differs from any character)
strncmp_eq(a, b, n) ==
    IF Len(a) >= n /\ Len(b) >= n
    THEN \A i \in 1..n : a[i] = b[i]
    ELSE a = b

\* snprintf(buf, size, "%s", s): at most size-1 characters are written
snprintf(size, s) == IF Len(s) <= size - 1 THEN s ELSE SubSeq(s, 1, size - 1)

\* access(p, X_OK) == 0 on the filesystem fsx (the set of executable paths)
access(fsx, p) == p \in fsx

----------------------------------------------------------------------------
(* path_val and pfind *)

\* getenv_PATH is getenv("PATH") of the launcher: NULL or Ptr(value)
path_val(envp_, getenv_PATH) ==
    IF envp_ = NULL \/ Len(envp_) = 0
    THEN getenv_PATH
    ELSE LET hits == {i \in 1..Len(envp_) : strncmp_eq(PATH_DEF, envp_[i], path_def_len)}
         IN  IF hits = {} THEN NULL
             ELSE LET i == CHOOSE h \in hits : \A g \in hits : h <= g
                  IN  Ptr(SubSeq(envp_[i], path_def_len + 1, Len(envp_[i])))

\* strtok_r(.., ":", &sp): skip the delimiters from pos on; 0 when the string ends
strtok_start(path, pos) ==
    IF \E i \in pos..Len(path) : path[i] # ":"
    THEN CHOOSE i \in pos..Len(path) : path[i] # ":" /\ \A j \in pos..(i-1) : path[j] = ":"
    ELSE 0

\* the token runs up to the next delimiter, or to the end of the string
strtok_end(path, start) ==
    IF \E i \in start..Len(path) : path[i] = ":"
    THEN CHOOSE i \in start..Len(path) : path[i] = ":" /\ \A j \in start..(i-1) : path[j] # ":"
    ELSE Len(path) + 1

\* the while loop of pfind: ret is the path found or NULL, probes the
\* arguments of the access() calls made, in order
RECURSIVE pfind_loop(_, _, _, _, _)
pfind_loop(fsx, name, path, pos, probed) ==
    LET start == strtok_start(path, pos)
    IN  IF start = 0
        THEN [ret |-> NULL, probes |-> probed]
        ELSE LET end == strtok_end(path, start)
                 tok == SubSeq(path, start, end - 1)
                 fullpath == snprintf((PATH_MAX + 1) - 1, tok \o <<"/">> \o name)
             IN  IF access(fsx, fullpath)
                 THEN [ret |-> Ptr(fullpath), probes |-> Append(probed, fullpath)]
                 ELSE pfind_loop(fsx, name, path, end + 1, Append(probed, fullpath))

MsgNullArg == "pfind(): Null argument.\n"
MsgNoPath == "Unable to get $PATH.\n"

\* (only a leading '/' taken for a path)
IsPathLike_slash_only(n) == Len(n) > 0 /\ n[1] = "/"

\* pfind, line 54
IsPathLike(n) == Len(n) > 0 /\ (n[1] = "/" \/ n[1] = ".")

\* pfind(name, envp, errbuff): errbuff is the content of the caller's buffer on
\* entry; the result gives its content on return
pfind(fsx, getenv_PATH, name, envp_, errbuff_) ==
    IF name = NULL
    THEN [ret |-> NULL, errbuff |-> MsgNullArg, probes |-> <<>>]
    ELSE IF IsPathLike(Deref(name))
    THEN [ret |-> IF access(fsx, Deref(name)) THEN name ELSE NULL,
          errbuff |-> errbuff_, probes |-> <<Deref(name)>>]
    ELSE LET path == path_val(envp_, getenv_PATH)
         IN  IF path = NULL \/ Len(Deref(path)) <= 0
             THEN [ret |-> NULL, errbuff |-> MsgNoPath, probes |-> <<>>]
             ELSE LET r == pfind_loop(fsx, Deref(name), Deref(path), 1, <<>>)
                  IN  [ret |-> r.ret, errbuff |-> errbuff_, probes |-> r.probes]

----------------------------------------------------------------------------
(* Descriptor tables *)

Fds == 0..(FdLimit - 1)

\* the name of end e (0 read, 1 write) of pipe k of the current call
PipeEnd(k, e) == <<<<"p0r", "p0w">>, <<"p1r", "p1w">>, <<"p2r", "p2w">>>>[k + 1][e + 1]
PipeEnds == {PipeEnd(k, e) : k \in 0..2, e \in 0..1}

OpenFds(tab) == {fd \in Fds : tab[fd] # "closed"}
FreeFds(tab) == {fd \in Fds : tab[fd] = "closed"}
LowestFree(tab) == CHOOSE fd \in FreeFds(tab) : \A g \in FreeFds(tab) : fd <= g

\* close(fd): EBADF leaves the table as it is
close(tab, fd) == IF fd \in Fds THEN [tab EXCEPT ![fd] = "closed"] ELSE tab

\* dup2(oldfd, newfd): EBADF when oldfd is not open; nothing to do when equal
dup2(tab, oldfd, newfd) ==
    IF oldfd \notin Fds \/ tab[oldfd] = "closed" THEN tab
    ELSE [tab EXCEPT ![newfd] = tab[oldfd]]

\* pipe(pipek) succeeding: the two lowest free descriptors, read end first
pipe(tab, k) ==
    LET r == LowestFree(tab)
        t1 == [tab EXCEPT ![r] = PipeEnd(k, 0)]
        w == LowestFree(t1)
    IN  [tab |-> [t1 EXCEPT ![w] = PipeEnd(k, 1)], fd |-> <<r, w>>]

----------------------------------------------------------------------------
(* The strings the model draws its inputs from *)

s_x == <<"x">>
s_xy == <<"x", "y">>
s_abs == <<"/", "x">>
s_rel == <<".", "/", "x">>
s_a == <<"a">>
s_b == <<"b">>
\* a directory name so long that "<dir>/xy" has PATH_MAX characters
s_long == [i \in 1..(PATH_MAX - 3) |-> IF i % 2 = 1 THEN "d" ELSE "/"]

Env(key, val) == key \o <<"=">> \o val
k_PATH == <<"P", "A", "T", "H">>
k_PATHX == <<"P", "A", "T", "H", "X">>
k_HOME == <<"H", "O", "M", "E">>
InDir(dir, name) == dir \o <<"/">> \o name
List(a, b) == a \o <<":">> \o b

\* an uninitialised buffer, and what reading it may give: anything, the text an
\* earlier call left in the same stack slot included
Uninit == "<uninitialised>"
Indeterminate == {"<junk>", MsgNullArg, MsgNoPath}
ReadBuf(b) == IF b = Uninit THEN Indeterminate ELSE {b}

----------------------------------------------------------------------------
(* State *)

VARIABLES
    fs,             \* the paths access(.., X_OK) succeeds on
    environ,        \* getenv("PATH") of the launcher: NULL or Ptr(value)
    launcher,       \* [pid, pgid, sid] of the launcher process
    fdtab,          \* the launcher's descriptor table
    pc,             \* the launcher's position in exec_0 / exec0
    argv, envp,     \* the arguments of the current call
    full_path,      \* exec0's full_path
    pfind_errbuff,  \* exec0's pfind_errbuff[1024]
    probes,         \* the access() calls pfind made in the current call
    pipes,          \* pipe0, pipe1, pipe2
    errbuff,        \* exec_0's errbuff[4096]
    channels,       \* exec_0's channels[3]
    pid,            \* what exec0 returned
    ret,            \* the object exec_0 returned last
    logged,         \* what exec_0 passed to the log callback last
    child,          \* the process of the last successful fork
    signalled,      \* the processes a raise() delivered its signal to
    fds_before,     \* the launcher's open descriptors when the call began
    calls           \* number of exec_0 calls so far

vars == <<fs, environ, launcher, fdtab, pc, argv, envp, full_path, pfind_errbuff,
          probes, pipes, errbuff, channels, pid, ret, logged, child, signalled,
          fds_before, calls>>

world == <<fs, environ, launcher>>

NoFd == 0 - 1
NoPipes == <<<<NoFd, NoFd>>, <<NoFd, NoFd>>, <<NoFd, NoFd>>>>
NoBuf == [text |-> Uninit, path |-> <<>>, detail |-> ""]
NoRet == [keys |-> {}, pid |-> 0, stdin |-> NoFd, stdout |-> NoFd, stderr |-> NoFd, errmsg |-> NoBuf]
NoChild == [pc |-> "none", pid |-> 0, pgid |-> 0, sid |-> 0, fdtab |-> [fd \in Fds |-> "closed"],
            pipes |-> NoPipes, full_path |-> NULL, envp |-> <<>>,
            cwd |-> "", image |-> NULL, env |-> "", status |-> NoFd]

\* the launcher before the first call: any of the descriptors 0..MaxInitFd open
InitTabs == {[fd \in Fds |-> IF fd \in S THEN "file" ELSE "closed"] : S \in SUBSET (0..MaxInitFd)}

InitWith(fss, environs, tabs) ==
    /\ fs \in fss
    /\ environ \in environs
    /\ launcher = [pid |-> 2, pgid |-> 2, sid |-> 1]
    /\ fdtab \in tabs
    /\ pc = "idle"
    /\ argv = <<>>
    /\ envp = <<>>
    /\ full_path = NULL
    /\ pfind_errbuff = Uninit
    /\ probes = <<>>
    /\ pipes = NoPipes
    /\ errbuff = NoBuf
    /\ channels = <<NoFd, NoFd, NoFd>>
    /\ pid = 0
    /\ ret = NoRet
    /\ logged = NoBuf
    /\ child = NoChild
    /\ signalled = {}
    /\ fds_before = {}
    /\ calls = 0

----------------------------------------------------------------------------
(* exec_0 and exec0: the launcher *)

\* exec_0, lines 246-269: the arguments are converted and exec0 is entered.
\* The pipe ends an earlier call left open are from now on just open files.
exec_0_call(argvs, envps) ==
    /\ pc = "idle"
    /\ calls < MaxCalls
    /\ \E a \in argvs, e \in envps : argv' = a /\ envp' = e
    /\ fdtab' = [fd \in Fds |-> IF fdtab[fd] \in PipeEnds THEN "file" ELSE fdtab[fd]]
    /\ fds_before' = OpenFds(fdtab)
    /\ pfind_errbuff' = Uninit
    /\ errbuff' = NoBuf
    /\ channels' = <<NoFd, NoFd, NoFd>>
    /\ pipes' = NoPipes
    /\ full_path' = NULL
    /\ probes' = <<>>
    /\ pid' = 0
    /\ calls' = calls + 1
    /\ pc' = "pfind"
    /\ UNCHANGED <<world, ret, logged, child, signalled>>

\* the texts exec0 writes to errbuff: lines 101, 110, 120
MsgNoFullPath == "Unable to find full path for"
MsgPipe == "exec0(110): returning due to error."
MsgFork == "exec0(120): returning due to error: "

\* argv[0], the path argument of exec0
path_arg == IF Len(argv) = 0 THEN NULL ELSE Ptr(argv[1])

\* (a missing return: exec0 would go on to create the pipes)
after_pfind_failure_no_return == "pipe0"
\* where exec0 goes on when pfind returned NULL: line 102 returns
after_pfind_failure == "exec0_ret"

\* exec0, lines 98-103
exec0_pfind ==
    /\ pc = "pfind"
    /\ LET r == pfind(fs, environ, path_arg, envp, pfind_errbuff)
       IN  /\ full_path' = r.ret
           /\ pfind_errbuff' = r.errbuff
           /\ probes' = r.probes
           /\ IF r.ret = NULL
              THEN /\ \E d \in ReadBuf(r.errbuff) :
                        errbuff' = [text |-> MsgNoFullPath,
                                    path |-> IF path_arg = NULL THEN <<>> ELSE Deref(path_arg),
                                    detail |-> d]
                   /\ pid' = 0 - 1
                   /\ pc' = after_pfind_failure
              ELSE /\ pc' = "pipe0"
                   /\ UNCHANGED <<errbuff, pid>>
    /\ UNCHANGED <<world, fdtab, argv, envp, pipes, channels, ret, logged, child,
                   signalled, fds_before, calls>>

PipePcs == <<"pipe0", "pipe1", "pipe2", "fork">>
pipe_index == CHOOSE k \in 0..2 : PipePcs[k + 1] = pc

\* exec0, line 109: one pipe() call succeeding
exec0_pipe_ok ==
    /\ pc \in {"pipe0", "pipe1", "pipe2"}
    /\ Cardinality(FreeFds(fdtab)) >= 2
    /\ LET p == pipe(fdtab, pipe_index)
       IN  /\ fdtab' = p.tab
           /\ pipes' = [pipes EXCEPT ![pipe_index + 1] = p.fd]
    /\ pc' = PipePcs[pipe_index + 2]
    /\ UNCHANGED <<world, argv, envp, full_path, pfind_errbuff, probes, errbuff,
                   channels, pid, ret, logged, child, signalled, fds_before, calls>>

\* what exec0 does with the pipes already created when a later step fails
exec0_cleanup(tab) == tab

\* exec0, lines 109-114: one pipe() call failing (EMFILE, ENFILE)
exec0_pipe_fail ==
    /\ pc \in {"pipe0", "pipe1", "pipe2"}
    /\ errbuff' = [text |-> MsgPipe, path |-> <<>>, detail |-> ""]
    /\ fdtab' = exec0_cleanup(fdtab)
    /\ pid' = 0 - 1
    /\ pc' = "exec0_ret"
    /\ UNCHANGED <<world, argv, envp, full_path, pfind_errbuff, probes, pipes,
                   channels, ret, logged, child, signalled, fds_before, calls>>

\* exec0, lines 117-123: fork() failing
exec0_fork_fail ==
    /\ pc = "fork"
    /\ errbuff' = [text |-> MsgFork, path |-> <<>>,
                   detail |-> "strerror(errno)"]
    /\ fdtab' = exec0_cleanup(fdtab)
    /\ pid' = 0 - 1
    /\ pc' = "exec0_ret"
    /\ UNCHANGED <<world, argv, envp, full_path, pfind_errbuff, probes, pipes,
                   channels, ret, logged, child, signalled, fds_before, calls>>

\* the process fork() creates: a copy of the launcher
forked(newpid) ==
    [pc |-> "chdir", pid |-> newpid, pgid |-> launcher.pgid, sid |-> launcher.sid,
     fdtab |-> fdtab, pipes |-> pipes, full_path |-> full_path, envp |-> envp,
     cwd |-> "inherited", image |-> NULL, env |-> "", status |-> NoFd]

\* the process id fork() gives the child of this call: one that no process,
\* process group or session uses
fresh_pid == launcher.pid + calls

\* exec0, line 117: fork() succeeding
exec0_fork_ok ==
    /\ pc = "fork"
    /\ child' = forked(fresh_pid)
    /\ pid' = fresh_pid
    /\ signalled' = {}
    /\ pc' = "parent"
    /\ UNCHANGED <<world, fdtab, argv, envp, full_path, pfind_errbuff, probes, pipes,
                   errbuff, channels, ret, logged, fds_before, calls>>

\* exec0, lines 173-185: the ends the launcher closes after the fork
parent_close(tab, pp) == close(close(close(tab, pp[1][1]), pp[2][2]), pp[3][2])

\* exec0, lines 186-188
parent_channels(pp) == <<pp[1][2], pp[2][1], pp[3][1]>>

\* exec0, lines 169-193: the launcher continuation
exec0_parent ==
    /\ pc = "parent"
    /\ fdtab' = parent_close(fdtab, pipes)
    /\ channels' = parent_channels(pipes)
    /\ pc' = "exec0_ret"
    /\ UNCHANGED <<world, argv, envp, full_path, pfind_errbuff, probes, pipes, errbuff,
                   pid, ret, logged, child, signalled, fds_before, calls>>

\* (the channel fields set whatever exec0 returned)
response_always_channels(p, ch, eb) ==
    [keys |-> {"pid", "stdin", "stdout", "stderr"} \cup (IF p > 0 THEN {} ELSE {"errmsg"}),
     pid |-> p, stdin |-> ch[1], stdout |-> ch[2], stderr |-> ch[3],
     errmsg |-> IF p > 0 THEN NoBuf ELSE eb]

\* exec_0, lines 272-281: the object returned
response(p, ch, eb) ==
    IF p > 0
    THEN [keys |-> {"pid", "stdin", "stdout", "stderr"}, pid |-> p,
          stdin |-> ch[1], stdout |-> ch[2], stderr |-> ch[3], errmsg |-> NoBuf]
    ELSE [keys |-> {"pid", "errmsg"}, pid |-> p,
          stdin |-> NoFd, stdout |-> NoFd, stderr |-> NoFd, errmsg |-> eb]

\* exec_0, lines 270-286
exec_0_return ==
    /\ pc = "exec0_ret"
    /\ logged' = IF pid <= 0 THEN errbuff ELSE logged
    /\ ret' = response(pid, channels, errbuff)
    /\ pc' = "idle"
    /\ UNCHANGED <<world, fdtab, argv, envp, full_path, pfind_errbuff, probes, pipes,
                   errbuff, channels, pid, child, signalled, fds_before, calls>>

----------------------------------------------------------------------------
(* exec0: the child continuation, lines 124-167 *)

child_vars == <<world, fdtab, pc, argv, envp, full_path, pfind_errbuff, probes, pipes,
                errbuff, channels, pid, ret, logged, signalled, fds_before, calls>>

\* line 127: chdir(dirpath), whose result is not looked at
child_chdir ==
    /\ child.pc = "chdir"
    /\ \E d \in {"dirpath", "inherited"} : child' = [child EXCEPT !.cwd = d, !.pc = "close"]
    /\ UNCHANGED child_vars

\* lines 131-140: the ends the child closes
child_close(tab, pp) == close(close(close(tab, pp[1][2]), pp[2][1]), pp[3][1])

child_close_unused ==
    /\ child.pc = "close"
    /\ child' = [child EXCEPT !.fdtab = child_close(child.fdtab, child.pipes), !.pc = "dup2"]
    /\ UNCHANGED child_vars

\* (the redirections made in the opposite order)
child_redirect_reversed(tab, pp) ==
    dup2(dup2(dup2(tab, pp[3][2], STDERR_FILENO), pp[2][2], STDOUT_FILENO), pp[1][1], STDIN_FILENO)

\* lines 143-145: the redirections
child_redirect(tab, pp) ==
    dup2(dup2(dup2(tab, pp[1][1], STDIN_FILENO), pp[2][2], STDOUT_FILENO), pp[3][2], STDERR_FILENO)

child_dup2 ==
    /\ child.pc = "dup2"
    /\ child' = [child EXCEPT !.fdtab = child_redirect(child.fdtab, child.pipes), !.pc = "closeall"]
    /\ UNCHANGED child_vars

\* lines 149-155: close every descriptor from 3 up to sysconf(_SC_OPEN_MAX)
child_closeall(tab) == [fd \in Fds |-> IF fd >= 3 /\ fd < FdLimit THEN "closed" ELSE tab[fd]]

child_close_all ==
    /\ child.pc = "closeall"
    /\ child' = [child EXCEPT !.fdtab = child_closeall(child.fdtab), !.pc = "setpgid"]
    /\ UNCHANGED child_vars

\* setpgid(getpid(), getpid()): EPERM for a session leader
setpgid_self(p) == IF p.sid = p.pid THEN p ELSE [p EXCEPT !.pgid = p.pid]

\* setsid(): EPERM for a process that is a process group leader
setsid(p) == IF p.pgid = p.pid THEN p ELSE [p EXCEPT !.sid = p.pid, !.pgid = p.pid]

\* line 157
child_setpgid ==
    /\ child.pc = "setpgid"
    /\ child' = [setpgid_self(child) EXCEPT !.pc = "setsid"]
    /\ UNCHANGED child_vars

\* line 158
child_setsid ==
    /\ child.pc = "setsid"
    /\ child' = [setsid(child) EXCEPT !.pc = "exec"]
    /\ UNCHANGED child_vars

\* (execve with the given list even when it is empty)
exec_env_always_given(envp_) == "given"

\* lines 161-165: which environment the new image gets
exec_env(envp_) == IF Len(envp_) = 0 THEN "inherited" ELSE "given"

\* lines 161-165: execv / execve replacing the image
child_exec_ok ==
    /\ child.pc = "exec"
    /\ child' = [child EXCEPT !.image = child.full_path, !.env = exec_env(child.envp),
                              !.pc = "image"]
    /\ UNCHANGED child_vars

\* lines 161-167: execv / execve failing, then _exit(127)
child_exec_fail ==
    /\ child.pc = "exec"
    /\ child' = [child EXCEPT !.status = 127, !.pc = "exited"]
    /\ UNCHANGED child_vars

----------------------------------------------------------------------------
(* raise() of signal.cc, called by the host between two exec_0 calls *)

Alive(p) == p.pc \notin {"none", "exited"}
Processes == {[pid |-> launcher.pid, pgid |-> launcher.pgid]} \cup
             (IF Alive(child) THEN {[pid |-> child.pid, pgid |-> child.pgid]} ELSE {})

\* signal.cc, lines 59-65: killpg(pid, sig), and kill(pid, sig) when that fails;
\* the processes the signal is delivered to
raise_targets(target) ==
    LET group == {p.pid : p \in {q \in Processes : q.pgid = target}}
    IN  IF group # {} THEN group
        ELSE {p.pid : p \in {q \in Processes : q.pid = target}}

raise ==
    /\ pc = "idle"
    /\ \E target \in {launcher.pgid} \cup (IF Alive(child) THEN {child.pid} ELSE {}) :
          signalled' = signalled \cup {<<target, r>> : r \in raise_targets(target)}
    /\ UNCHANGED <<world, fdtab, pc, argv, envp, full_path, pfind_errbuff, probes, pipes,
                   errbuff, channels, pid, ret, logged, child, fds_before, calls>>

----------------------------------------------------------------------------
(* Specifications *)

\* Spec: whole launches, from every set of descriptors 0..MaxInitFd
LaunchFs == {{}, {s_abs, InDir(s_a, s_x)}}
LaunchEnviron == {Ptr(s_a)}
LaunchArgv == {<<>>, <<s_x>>, <<s_abs>>}
LaunchEnvp == {<<>>, <<Env(k_HOME, s_a)>>}

Init == InitWith(LaunchFs, LaunchEnviron, InitTabs)

Launcher ==
    \/ exec0_pfind
    \/ exec0_pipe_ok
    \/ exec0_pipe_fail
    \/ exec0_fork_ok
    \/ exec0_fork_fail
    \/ exec0_parent
    \/ exec_0_return

Child ==
    \/ child_chdir
    \/ child_close_unused
    \/ child_dup2
    \/ child_close_all
    \/ child_setpgid
    \/ child_setsid
    \/ child_exec_ok
    \/ child_exec_fail

Next ==
    \/ exec_0_call(LaunchArgv, LaunchEnvp)
    \/ Launcher
    \/ Child
    \/ raise

Spec == Init /\ [][Next]_vars

\* SpecResolve: pfind applied to program names, environment lists, search
\* paths and filesystems, as exec0 applies it (lines 98-103)
ResolveFs == SUBSET {s_abs, s_rel, InDir(s_a, s_x), InDir(s_b, s_x), InDir(s_long, s_x)}
ResolveEnviron == {NULL, Ptr(<<>>), Ptr(List(s_a, s_b))}
ResolveArgv == {<<>>, <<s_x>>, <<s_xy>>, <<s_abs>>, <<s_rel>>, <<<<>>>>}
ResolveEnvp ==
    {<<>>,
     <<Env(k_PATH, List(s_a, s_b))>>,
     <<Env(k_PATH, List(s_b, s_a))>>,
     <<Env(k_HOME, s_a), Env(k_PATH, s_b), Env(k_PATH, s_a)>>,
     <<Env(k_PATH, <<>>)>>,
     <<Env(k_HOME, s_a)>>,
     <<Env(k_PATHX, s_a)>>,
     <<Env(k_PATH, List(s_long, s_a))>>,
     <<Env(k_PATH, <<":">> \o List(s_a, <<>>) \o List(<<>>, s_b) \o <<":">>)>>,
     <<Env(k_PATH, <<":">>)>>}
StdTab == [fd \in Fds |-> IF fd <= STDERR_FILENO THEN "file" ELSE "closed"]

InitResolve == InitWith(ResolveFs, ResolveEnviron, {StdTab})

NextResolve ==
    \/ exec_0_call(ResolveArgv, ResolveEnvp)
    \/ exec0_pfind

SpecResolve == InitResolve /\ [][NextResolve]_vars

----------------------------------------------------------------------------
(* Properties *)

\* exec0 has returned to exec_0, or exec_0 to its caller, in the current call
Returned == calls >= 1 /\ pc \in {"exec0_ret", "idle"}
\* the launcher's descriptors that are pipe ends of the current call
LauncherPipeFds == {fd \in Fds : fdtab[fd] \in PipeEnds}
\* a process was forked in the current call
ForkedThisCall == child.pc # "none" /\ child.pid = fresh_pid
\* the pipes pipe() filled in during the current call
PipesCreated == {k \in 1..3 : pipes[k] # <<NoFd, NoFd>>}

\* C1: when pipe creation fails after at least one pipe was created, no
\* process is forked and every pipe end created in the call is closed when
\* exec0 returns -1: the launcher's open descriptors are those it had before.
C1_PartialPipesReleased ==
    (Returned /\ errbuff.text = MsgPipe /\ PipesCreated # {})
        => /\ pid = 0 - 1
           /\ ~ForkedThisCall
           /\ LauncherPipeFds = {}
           /\ OpenFds(fdtab) = fds_before

\* C2: when fork fails after the three pipes were created, all six pipe ends
\* are closed when exec0 returns -1.
C2_ForkFailureReleasesPipes ==
    (Returned /\ errbuff.text = MsgFork)
        => /\ pid = 0 - 1
           /\ LauncherPipeFds = {}
           /\ OpenFds(fdtab) = fds_before

\* C3: when path resolution fails, exec0 returns a non-positive process id
\* and an error message, having created no pipe and forked no process: the
\* launcher's descriptor table is as it was before the call.
C3_ResolutionFailureAllocatesNothing ==
    (Returned /\ full_path = NULL)
        => /\ pid <= 0
           /\ errbuff.text = MsgNoFullPath
           /\ PipesCreated = {}
           /\ LauncherPipeFds = {}
           /\ OpenFds(fdtab) = fds_before
           /\ ~ForkedThisCall
           /\ (pc = "idle" => ret.pid <= 0 /\ ret.errmsg = errbuff)

\* C3 witness: a bare name was searched for in a search path and not found,
\* and exec_0 has returned the failure
C3_Witness ==
    /\ pc = "idle"
    /\ calls >= 1
    /\ full_path = NULL
    /\ Len(probes) >= 1
    /\ ret.pid <= 0
    /\ fds_before # {}

\* C4: a response of exec_0 is a success (pid > 0, the three channel fields,
\* no errmsg) or a failure (pid <= 0, errmsg, no channel field); it is a
\* success exactly when a process was forked, and its channels are then the
\* ones exec0 filled in.
C4_ResponseShape ==
    (pc = "idle" /\ calls >= 1)
        => /\ \/ /\ ret.pid > 0
                 /\ ret.keys = {"pid", "stdin", "stdout", "stderr"}
                 /\ <<ret.stdin, ret.stdout, ret.stderr>> = channels
                 /\ ForkedThisCall /\ ret.pid = child.pid
              \/ /\ ret.pid <= 0
                 /\ ret.keys = {"pid", "errmsg"}
                 /\ ret.errmsg = errbuff
                 /\ ~ForkedThisCall
           /\ ret.pid = pid

\* C4 witnesses: both shapes have been returned
C4_Witness ==
    /\ pc = "idle"
    /\ calls >= 2
    /\ ret.pid <= 0
    /\ ret.errmsg.text = MsgFork
    /\ child.pc = "image"

C6_ChildGroupDistinctAfterReturn ==
    /\ (Returned /\ pid > 0 /\ Alive(child)) => child.pgid # launcher.pgid
    /\ \A d \in signalled : d[1] = launcher.pgid => d[2] # child.pid

\* C7: when the child replaces its image it is the leader of a new session:
\* its session id is its own process id and differs from the launcher's.
C7_ChildNewSession ==
    (child.pc \in {"exec", "image"})
        => /\ child.sid # launcher.sid
           /\ child.sid = child.pid

----------------------------------------------------------------------------
(* Properties of the resolution, checked under SpecResolve *)

\* pfind has returned in the current call
Resolved == calls >= 1 /\ pc \notin {"idle", "pfind"}
StartsWithSlashOrDot(n) == n # <<>> /\ Head(n) \in {"/", "."}
BareName == argv # <<>> /\ ~StartsWithSlashOrDot(argv[1])

\* the directories a search path lists: its maximal runs of characters other
\* than ':', in order
DirStarts(path) == {i \in 1..Len(path) : path[i] # ":" /\ (i = 1 \/ path[i - 1] = ":")}
DirEnd(path, i) ==
    CHOOSE j \in i..Len(path) :
        (j = Len(path) \/ path[j + 1] = ":") /\ \A k \in i..j : path[k] # ":"
RECURSIVE SortedSeq(_)
SortedSeq(S) ==
    IF S = {} THEN <<>>
    ELSE LET m == CHOOSE x \in S : \A y \in S : x <= y
         IN  <<m>> \o SortedSeq(S \ {m})
Directories(path) ==
    LET st == SortedSeq(DirStarts(path))
    IN  [k \in 1..Len(st) |-> SubSeq(path, st[k], DirEnd(path, st[k]))]

\* the search path the claims speak of: the value of the first entry of the
\* environment list whose key is PATH, or the launcher's own PATH when the
\* list is empty
HasPathKey(e) == Len(e) >= Len(PATH_DEF) /\ SubSeq(e, 1, Len(PATH_DEF)) = PATH_DEF
SelectedPath ==
    IF envp = <<>> THEN environ
    ELSE IF \E i \in 1..Len(envp) : HasPathKey(envp[i])
    THEN LET i == CHOOSE h \in 1..Len(envp) :
                      HasPathKey(envp[h]) /\ \A g \in 1..(h - 1) : ~HasPathKey(envp[g])
         IN  Ptr(SubSeq(envp[i], Len(PATH_DEF) + 1, Len(envp[i])))
    ELSE NULL
NoSearchPath == SelectedPath = NULL \/ Deref(SelectedPath) = <<>>

\* C8 (the result it states): for a bare name and a non-empty search path,
\* pfind returns "<directory>/<name>" for the first listed directory where
\* that path is executable, and fails only if it is executable in none.
C8_FirstListedDirectoryWins ==
    (Resolved /\ BareName /\ ~NoSearchPath)
        => LET dirs == Directories(Deref(SelectedPath))
               cand == [k \in 1..Len(dirs) |-> dirs[k] \o <<"/">> \o argv[1]]
               hits == {k \in 1..Len(dirs) : cand[k] \in fs}
           IN  IF hits = {} THEN full_path = NULL
               ELSE full_path = Ptr(cand[CHOOSE k \in hits : \A h \in hits : k <= h])

\* C9: for a program argument starting with '/' or '.', pfind returns that
\* path if it is executable and fails otherwise, whatever the environment
\* list and the search path are, and the only path probed is the argument.
C9_PathArgumentNotSearched ==
    (Resolved /\ argv # <<>> /\ StartsWithSlashOrDot(argv[1]))
        => /\ full_path = (IF argv[1] \in fs THEN Ptr(argv[1]) ELSE NULL)
           /\ probes = <<argv[1]>>

\* C9 witness: "./x" was resolved to itself while the search path lists a
\* directory that has an executable x
C9_Witness ==
    /\ Resolved
    /\ argv = <<s_rel>>
    /\ full_path = Ptr(s_rel)
    /\ ~NoSearchPath
    /\ InDir(s_a, s_x) \in fs

\* C10: for a bare name the search path is the value of the first PATH= entry
\* of the environment list, or the launcher's PATH when the list is empty;
\* without a value, or with an empty one, resolution fails with "Unable to
\* get $PATH" and probes nothing; and that is never the diagnostic when a
\* non-empty search path was searched without a match.
C10_NoSearchPathDiagnostic ==
    (Resolved /\ BareName)
        => /\ NoSearchPath
                 => full_path = NULL /\ probes = <<>> /\ errbuff.detail = MsgNoPath
           /\ ~NoSearchPath
                 => LET r == pfind_loop(fs, argv[1], Deref(SelectedPath), 1, <<>>)
                    IN  full_path = r.ret /\ probes = r.probes
           /\ (~NoSearchPath /\ full_path = NULL /\ Len(probes) >= 1)
                 => errbuff.detail # MsgNoPath

----------------------------------------------------------------------------
(* Properties of the diagnostics and of the child continuation, under Spec *)

\* the text strerror(errno) stands for in a diagnostic
OsErrorText == "strerror(errno)"

\* C11: on every failure path the error string handed to the caller was
\* written in whole before the non-positive status is returned: the text
\* exec0 writes, and within it the diagnostic of pfind, which pfind has
\* written; a failed system call is reported with the OS error description.
C11_DiagnosticWritten ==
    (Returned /\ pid <= 0)
        => /\ errbuff.text \in {MsgNoFullPath, MsgPipe, MsgFork}
           /\ errbuff.text = MsgNoFullPath
                 => pfind_errbuff \in {MsgNullArg, MsgNoPath} /\ errbuff.detail = pfind_errbuff
           /\ errbuff.text \in {MsgPipe, MsgFork} => errbuff.detail = OsErrorText
           /\ (pc = "idle" => ret.errmsg = errbuff /\ logged = errbuff)

\* C12: the child continuation ends in one of two ways only: the image
\* replaced by the resolved program, with the launcher's environment when the
\* environment list is empty and the given list otherwise, or exit status
\* 127; until then it can always take its next step, whatever chdir did; and
\* the launcher reports the child's positive pid whichever way the child ends.
C12_ChildReplacesImageOrExits127 ==
    /\ child.pc \in {"none", "chdir", "close", "dup2", "closeall", "setpgid", "setsid",
                     "exec", "image", "exited"}
    /\ child.pc = "image"
          => /\ child.image = child.full_path /\ child.image # NULL
             /\ child.env = (IF child.envp = <<>> THEN "inherited" ELSE "given")
             /\ child.status = NoFd
    /\ child.pc = "exited" => child.status = 127 /\ child.image = NULL
    /\ child.pc \notin {"none", "image", "exited"} => ENABLED Child
    /\ child.pc = "exec" => ENABLED child_exec_ok /\ ENABLED child_exec_fail
    /\ (Returned /\ ForkedThisCall)
          => /\ pid = child.pid /\ pid > 0
             /\ (pc = "idle" => ret.pid = child.pid /\ "errmsg" \notin ret.keys)

\* C12 witness: chdir failed, the image replacement failed too, the child has
\* exited with 127, and exec_0 has returned the child's pid as a success
C12_Witness ==
    /\ pc = "idle"
    /\ ForkedThisCall
    /\ child.pc = "exited"
    /\ child.status = 127
    /\ child.cwd = "inherited"
    /\ ret.pid = child.pid
    /\ ret.keys = {"pid", "stdin", "stdout", "stderr"}

====
